---- MODULE Spec2Model ----
(***************************************************************************)
(* LinearMap<K, V> (src/src/lib.rs): a map kept in two parallel vectors,   *)
(* `keys` and `values`, searched by a linear scan.                         *)
(*                                                                         *)
(* Two maps are modelled, so that append(&mut self, other) has both a      *)
(* receiver and an argument that were built by the same operations.        *)
(* Indices are 1-based here (TLA+ sequences); index i of the source is     *)
(* index i+1 of the model.                                                 *)
(*                                                                         *)
(* Keys.  The only bound on K is PartialEq.  A key is a pair               *)
(* <<class, tag>>: two keys compare equal iff they have the same class,    *)
(* and the tag tells apart keys that are == without being identical (the   *)
(* case the documentation of insert speaks of).  Class 0 is a key that is  *)
(* not equal to itself, as PartialEq allows (f64::NAN).                    *)
(***************************************************************************)
EXTENDS Integers, Sequences, FiniteSets, TLC

\* ---------------------------------------------------------------- bounds
MaxLen == 3          \* longest key/value vector explored
MaxTotal == 2        \* most entries alive in two maps together
MaxCapArg == 1       \* largest argument given to with_capacity

Maps == {1, 2}
\* <<0,1>>: not equal to itself; <<1,1>> and <<1,2>>: equal, not identical; <<2,1>>
Keys == {<<0, 1>>, <<1, 1>>, <<1, 2>>, <<2, 1>>}
Values == {1, 2}
NoKey == <<0, 0>>

None == <<>>
Some(x) == <<x>>

VARIABLES maps, last, it, built
vars == <<maps, last, it, built>>

\* ------------------------------------------------------- Vec primitives
\* K: PartialEq; key.eq(k.borrow())
KeyEq(a, b) == a[1] = b[1] /\ a[1] # 0

\* amortised growth of Vec::push when len == capacity
GrowCap(cap) == IF cap = 0 THEN 4 ELSE 2 * cap

\* Vec::swap_remove: the element at i is replaced by the last one
swap_remove_shift(s, i) == [j \in 1..(Len(s) - 1) |-> IF j < i THEN s[j] ELSE s[j + 1]]
swap_remove(s, i) == [j \in 1..(Len(s) - 1) |-> IF j = i THEN s[Len(s)] ELSE s[j]]

\* ------------------------------------------------------- LinearMap, pure
\* cap: keys.capacity(), vcap: values.capacity()
new == [keys |-> <<>>, values |-> <<>>, cap |-> 0, vcap |-> 0]

with_capacity(capacity) ==
    [keys |-> <<>>, values |-> <<>>, cap |-> capacity, vcap |-> capacity]

clear_dealloc(mp) == [keys |-> <<>>, values |-> <<>>, cap |-> 0, vcap |-> 0]
clear(mp) == [mp EXCEPT !.keys = <<>>, !.values = <<>>]

len(mp) == Len(mp.keys)

is_empty(mp) == Len(mp.keys) = 0

capacity(mp) == mp.cap

RECURSIVE FindFrom(_, _, _)
FindFrom(ks, key, i) ==
    IF i > Len(ks) THEN None
    ELSE IF KeyEq(key, ks[i]) THEN Some(i)
    ELSE FindFrom(ks, key, i + 1)

find_skip_first(mp, key) == FindFrom(mp.keys, key, 2)
find(mp, key) == FindFrom(mp.keys, key, 1)

get(mp, key) ==
    LET f == find(mp, key)
    IN  IF f # None THEN Some(mp.values[f[1]]) ELSE None

get_key_value(mp, key) ==
    LET f == find(mp, key)
    IN  IF f # None THEN Some(<<mp.keys[f[1]], mp.values[f[1]]>>) ELSE None

contains_key(mp, key) == find(mp, key) # None

\* insert: the pair [map, ret] of the map afterwards and the returned Option
Push_realloc(mp, key, value) ==
    [keys |-> Append(mp.keys, key), values |-> Append(mp.values, value),
     cap |-> GrowCap(mp.cap), vcap |-> GrowCap(mp.vcap)]
Push(mp, key, value) ==
    [keys |-> Append(mp.keys, key), values |-> Append(mp.values, value),
     cap |-> IF Len(mp.keys) = mp.cap THEN GrowCap(mp.cap) ELSE mp.cap,
     vcap |-> IF Len(mp.values) = mp.vcap THEN GrowCap(mp.vcap) ELSE mp.vcap]

insert_prepend(mp, key, value) ==
    LET f == find(mp, key)
    IN  IF f # None
        THEN [map |-> [mp EXCEPT !.values[f[1]] = value], ret |-> Some(mp.values[f[1]])]
        ELSE [map |-> [Push(mp, key, value) EXCEPT !.keys = <<key>> \o mp.keys], ret |-> None]
insert_replace_key(mp, key, value) ==
    LET f == find(mp, key)
    IN  IF f # None
        THEN [map |-> [mp EXCEPT !.keys[f[1]] = key, !.values[f[1]] = value],
              ret |-> Some(mp.values[f[1]])]
        ELSE [map |-> Push(mp, key, value), ret |-> None]
insert(mp, key, value) ==
    LET f == find(mp, key)
    IN  IF f # None
        THEN [map |-> [mp EXCEPT !.values[f[1]] = value], ret |-> Some(mp.values[f[1]])]
        ELSE [map |-> Push(mp, key, value), ret |-> None]

remove_keys_only(mp, key) ==
    LET f == find(mp, key)
    IN  IF f # None
        THEN [map |-> [mp EXCEPT !.keys = swap_remove(mp.keys, f[1])],
              ret |-> Some(mp.values[f[1]])]
        ELSE [map |-> mp, ret |-> None]
remove_last_value(mp, key) ==
    LET f == find(mp, key)
    IN  IF f # None
        THEN [map |-> [mp EXCEPT !.keys = swap_remove(mp.keys, f[1]),
                                 !.values = swap_remove(mp.values, f[1])],
              ret |-> Some(mp.values[Len(mp.values)])]
        ELSE [map |-> mp, ret |-> None]
remove_pop_absent(mp, key) ==
    LET f == find(mp, key)
        i == IF f # None THEN f[1] ELSE Len(mp.keys)
    IN  IF i > 0
        THEN [map |-> [mp EXCEPT !.keys = swap_remove(mp.keys, i),
                                 !.values = swap_remove(mp.values, i)],
              ret |-> IF f # None THEN Some(mp.values[i]) ELSE None]
        ELSE [map |-> mp, ret |-> None]
remove(mp, key) ==
    LET f == find(mp, key)
    IN  IF f # None
        THEN [map |-> [mp EXCEPT !.keys = swap_remove(mp.keys, f[1]),
                                 !.values = swap_remove(mp.values, f[1])],
              ret |-> Some(mp.values[f[1]])]
        ELSE [map |-> mp, ret |-> None]

\* the loop of append: for i in 0..other.len() { self.insert(keys[i], values[i]) }
RECURSIVE AppendLoop(_, _, _)
AppendLoop(mp, other, i) ==
    IF i > Len(other.keys) THEN mp
    ELSE AppendLoop(insert(mp, other.keys[i], other.values[i]).map, other, i + 1)

append(mp, other) == [self |-> AppendLoop(mp, other, 1), other |-> clear(other)]

\* What a call of append can do.  The loop leaves mem::uninitialized() values in
\* every slot of other.keys and other.values, and other.clear() then drops them:
\* undefined behaviour as soon as `other` has an entry.  A build either runs it
\* as written ("none"), panics in mem::uninitialized (toolchains that check the
\* type may be left uninitialized, before anything is moved) or dies in the drop
\* of the uninitialized slots ("abort").
AppendOutcomes(other) ==
    IF len(other) = 0 THEN {"none"} ELSE {"none", "panic", "abort"}

\* get_mut / values_mut: the references handed out, as indices into values
get_mut(mp, key) == find(mp, key)

values_mut(mp) == [i \in 1..Len(mp.values) |-> i]

\* ------------------------------------------------------------ iterators
\* Iter, IterMut, IntoIter: a cursor over the keys and a cursor over the
\* values.  keys/values are the vectors the cursors run over (borrowed from the
\* map, or moved out of it by into_iter), kpos/vpos the next position of each,
\* out what next() has yielded so far, done whether next() has returned None.
NoIter == [kind |-> "none", m |-> 1, keys |-> <<>>, values |-> <<>>,
           kpos |-> 1, vpos |-> 1, out |-> <<>>, done |-> FALSE]

Cursors(kind, m, ks, vs) ==
    [kind |-> kind, m |-> m, keys |-> ks, values |-> vs,
     kpos |-> 1, vpos |-> 1, out |-> <<>>, done |-> FALSE]

iter(m, mp) == Cursors("iter", m, mp.keys, mp.values)

iter_mut(m, mp) == Cursors("iter_mut", m, mp.keys, mp.values)

into_iter(m, mp) == Cursors("into_iter", m, mp.keys, mp.values)

\* Iter::next, IterMut::next, IntoIter::next (the three bodies are the same):
\* [it, ret, fault]; value.next().unwrap() panics when the value cursor is empty
next_last_value(i) ==
    IF i.kpos <= Len(i.keys)
    THEN IF i.vpos <= Len(i.values)
         THEN LET pair == <<i.keys[i.kpos], i.values[Len(i.values)]>>
              IN  [it |-> [i EXCEPT !.kpos = @ + 1, !.vpos = @ + 1,
                                     !.out = Append(@, pair)],
                   ret |-> Some(pair), fault |-> "none"]
         ELSE [it |-> [i EXCEPT !.kpos = @ + 1], ret |-> None, fault |-> "panic"]
    ELSE [it |-> [i EXCEPT !.done = TRUE], ret |-> None, fault |-> "none"]
next(i) ==
    IF i.kpos <= Len(i.keys)
    THEN IF i.vpos <= Len(i.values)
         THEN LET pair == <<i.keys[i.kpos], i.values[i.vpos]>>
              IN  [it |-> [i EXCEPT !.kpos = @ + 1, !.vpos = @ + 1,
                                     !.out = Append(@, pair)],
                   ret |-> Some(pair), fault |-> "none"]
         ELSE [it |-> [i EXCEPT !.kpos = @ + 1], ret |-> None, fault |-> "panic"]
    ELSE [it |-> [i EXCEPT !.done = TRUE], ret |-> None, fault |-> "none"]

\* ---------------------------------------------------------------- state
\* maps[m]: the two LinearMaps.
\* last: the last call: its name, the map it was made on, its arguments, the
\*   index find returned in it (0: none, or no search), the Option it returned
\*   and how it ended ("none": it returned; "panic"; "abort": the process died).
\* it: the iterator alive, if any; the borrow it holds keeps every other call
\*   away until it is dropped.
\* built: history of each map: the capacity it was constructed with, as long as
\*   nothing but insert of a key not yet present has been called on it since;
\*   -1 once anything else has.
Call(op, m, key, value, at, ret, fault) ==
    [op |-> op, m |-> m, key |-> key, value |-> value, at |-> at, ret |-> ret,
     fault |-> fault]

At(f) == IF f # None THEN f[1] ELSE 0

Built(m, c) == built' = [built EXCEPT ![m] = c]

Init ==
    /\ maps = [m \in Maps |-> new]
    /\ last = Call("new", 1, NoKey, 0, 0, None, "none")
    /\ it = NoIter
    /\ built = [m \in Maps |-> 0]

Running == last.fault # "abort"
Free == Running /\ it.kind = "none"

New(m) ==
    /\ Running
    /\ it.kind = "none" \/ (it.kind = "moved" /\ it.m = m)
    /\ maps' = [maps EXCEPT ![m] = new]
    /\ last' = Call("new", m, NoKey, 0, 0, None, "none")
    /\ it' = NoIter
    /\ Built(m, 0)

WithCapacity(m, c) ==
    /\ Running
    /\ it.kind = "none" \/ (it.kind = "moved" /\ it.m = m)
    /\ maps' = [maps EXCEPT ![m] = with_capacity(c)]
    /\ last' = Call("with_capacity", m, NoKey, c, 0, None, "none")
    /\ it' = NoIter
    /\ Built(m, c)

Clear(m) ==
    /\ Free
    /\ maps' = [maps EXCEPT ![m] = clear(maps[m])]
    /\ last' = Call("clear", m, NoKey, 0, 0, None, "none")
    /\ Built(m, -1)
    /\ UNCHANGED it

\* (the guard on the length bounds the exploration; it is no part of insert)
Insert(m, k, v) ==
    /\ Free
    /\ LET r == insert(maps[m], k, v)
       IN  /\ Len(r.map.keys) <= MaxLen
           /\ maps' = [maps EXCEPT ![m] = r.map]
           /\ last' = Call("insert", m, k, v, At(find(maps[m], k)), r.ret, "none")
    /\ IF contains_key(maps[m], k) THEN Built(m, -1) ELSE UNCHANGED built
    /\ UNCHANGED it

Remove(m, k) ==
    /\ Free
    /\ LET r == remove(maps[m], k)
       IN  /\ maps' = [maps EXCEPT ![m] = r.map]
           /\ last' = Call("remove", m, k, 0, At(find(maps[m], k)), r.ret, "none")
    /\ Built(m, -1)
    /\ UNCHANGED it

AppendCall(m, o) ==
    /\ Free
    /\ m # o
    /\ LET r == append(maps[m], maps[o])
       IN  /\ Len(r.self.keys) <= MaxLen
           /\ \E f \in AppendOutcomes(maps[o]) :
                /\ maps' = IF f = "none"
                           THEN [maps EXCEPT ![m] = r.self, ![o] = r.other]
                           ELSE maps
                /\ last' = Call("append", m, NoKey, 0, 0, None, f)
    /\ built' = [x \in Maps |-> -1]
    /\ UNCHANGED it

\* *map.get_mut(&k).unwrap() = w, when get_mut returns a reference
GetMut(m, k, w) ==
    /\ Free
    /\ LET r == get_mut(maps[m], k)
       IN  /\ maps' = IF r # None THEN [maps EXCEPT ![m].values[r[1]] = w] ELSE maps
           /\ last' = Call("get_mut", m, k, w, At(r),
                           IF r # None THEN Some(maps[m].values[r[1]]) ELSE None, "none")
    /\ Built(m, -1)
    /\ UNCHANGED it

\* for v in map.values_mut() { *v = ws[i] }
ValuesMut(m, ws) ==
    /\ Free
    /\ LET r == values_mut(maps[m])
       IN  maps' = [maps EXCEPT ![m].values = [i \in 1..Len(r) |-> ws[r[i]]]]
    /\ last' = Call("values_mut", m, NoKey, 0, 0, None, "none")
    /\ Built(m, -1)
    /\ UNCHANGED it

IterCall(m) ==
    /\ Free
    /\ it' = iter(m, maps[m])
    /\ last' = Call("iter", m, NoKey, 0, 0, None, "none")
    /\ UNCHANGED <<maps, built>>

IterMutCall(m) ==
    /\ Free
    /\ it' = iter_mut(m, maps[m])
    /\ last' = Call("iter_mut", m, NoKey, 0, 0, None, "none")
    /\ Built(m, -1)
    /\ UNCHANGED maps

\* into_iter(self): the vectors move into the iterator, the map is gone
IntoIterCall(m) ==
    /\ Free
    /\ it' = into_iter(m, maps[m])
    /\ maps' = [maps EXCEPT ![m] = new]
    /\ last' = Call("into_iter", m, NoKey, 0, 0, None, "none")
    /\ Built(m, -1)

IterNext ==
    /\ Running
    /\ it.kind \in {"iter", "iter_mut", "into_iter"}
    /\ last.fault = "none"
    /\ LET r == next(it)
       IN  /\ it' = r.it
           /\ last' = Call("next", it.m, NoKey, 0, 0, r.ret, r.fault)
    /\ UNCHANGED <<maps, built>>

\* *v = w through the &mut V that IterMut::next has just yielded
IterMutWrite(w) ==
    /\ Running
    /\ it.kind = "iter_mut"
    /\ last.op = "next" /\ last.ret # None
    /\ maps' = [maps EXCEPT ![it.m].values[it.vpos - 1] = w]
    /\ it' = [it EXCEPT !.values[it.vpos - 1] = w]
    /\ last' = Call("write", it.m, NoKey, w, 0, None, "none")
    /\ UNCHANGED built

\* the iterator goes out of scope; after into_iter the map binding is moved-from
IterDrop ==
    /\ Running
    /\ it.kind \in {"iter", "iter_mut", "into_iter"}
    /\ it' = IF it.kind = "into_iter" THEN [NoIter EXCEPT !.kind = "moved", !.m = it.m]
             ELSE NoIter
    /\ last' = Call("drop", it.m, NoKey, 0, 0, None, "none")
    /\ UNCHANGED <<maps, built>>

\* One map, under every operation of its own.
Next ==
    \/ New(1)
    \/ \E c \in 0..MaxCapArg : WithCapacity(1, c)
    \/ Clear(1)
    \/ \E k \in Keys, v \in Values : Insert(1, k, v)
    \/ \E k \in Keys : Remove(1, k)
    \/ \E k \in Keys, w \in Values : GetMut(1, k, w)
    \/ \E ws \in [1..len(maps[1]) -> Values] : ValuesMut(1, ws)
    \/ IterCall(1)
    \/ IterMutCall(1)
    \/ IntoIterCall(1)
    \/ IterNext
    \/ \E w \in Values : IterMutWrite(w)
    \/ IterDrop

Spec == Init /\ [][Next]_vars

\* Two maps appended to one another; at most MaxTotal entries are alive at a
\* time.  Map 1 is under every operation; map 2, the `other` of map 1, is built
\* with new and is under every operation that changes a map through &mut self.
TotalLen == len(maps[1]) + len(maps[2])

Next2 ==
    /\ \/ \E m \in Maps : New(m)
       \/ \E c \in 0..MaxCapArg : WithCapacity(1, c)
       \/ \E m \in Maps : Clear(m)
       \/ \E m \in Maps, k \in Keys, v \in Values : Insert(m, k, v)
       \/ \E m \in Maps, k \in Keys : Remove(m, k)
       \/ \E m \in Maps, o \in Maps : AppendCall(m, o)
       \/ \E k \in Keys, w \in Values : GetMut(1, k, w)
       \/ \E ws \in [1..len(maps[1]) -> Values] : ValuesMut(1, ws)
       \/ IterCall(1)
       \/ IterMutCall(1)
       \/ IntoIterCall(1)
       \/ IterNext
       \/ \E w \in Values : IterMutWrite(w)
       \/ IterDrop
    /\ TotalLen' <= MaxTotal

SpecTwo == Init /\ [][Next2]_vars

\* ======================================================= order-based variant
\* The variant that matches keys by a total order (K: Ord): a key matches when
\* the comparison yields Equal.  Keys of class 0 have no place in a total order.
OrdKeys == {k \in Keys : k[1] # 0}

cmp(a, b) == IF a[1] < b[1] THEN "Less" ELSE IF a[1] = b[1] THEN "Equal" ELSE "Greater"

RECURSIVE FindOrdFrom(_, _, _)
FindOrdFrom(ks, key, i) ==
    IF i > Len(ks) THEN None
    ELSE IF cmp(key, ks[i]) = "Equal" THEN Some(i)
    ELSE FindOrdFrom(ks, key, i + 1)

find_ord(mp, key) == FindOrdFrom(mp.keys, key, 1)

insert_ord_keep_key(mp, key, value) ==
    LET f == find_ord(mp, key) IN
    IF f # None
    THEN [map |-> [mp EXCEPT !.values[f[1]] = value], ret |-> Some(mp.values[f[1]])]
    ELSE [map |-> Push(mp, key, value), ret |-> None]
insert_ord(mp, key, value) ==
    LET f == find_ord(mp, key) IN
    IF f # None
    THEN [map |-> [mp EXCEPT !.keys[f[1]] = key, !.values[f[1]] = value],
          ret |-> Some(mp.values[f[1]])]
    ELSE [map |-> Push(mp, key, value), ret |-> None]

remove_ord(mp, key) ==
    LET f == find_ord(mp, key) IN
    IF f # None
    THEN [map |-> [mp EXCEPT !.keys = swap_remove(mp.keys, f[1]),
                             !.values = swap_remove(mp.values, f[1])],
          ret |-> Some(mp.values[f[1]])]
    ELSE [map |-> mp, ret |-> None]

InsertOrd(m, k, v) ==
    /\ Running /\ Free
    /\ LET r == insert_ord(maps[m], k, v) IN
           /\ Len(r.map.keys) <= MaxLen
           /\ maps' = [maps EXCEPT ![m] = r.map]
           /\ last' = Call("insert_ord", m, k, v, At(find_ord(maps[m], k)), r.ret, "none")
    /\ IF find_ord(maps[m], k) # None THEN Built(m, -1) ELSE UNCHANGED built
    /\ UNCHANGED it

RemoveOrd(m, k) ==
    /\ Running /\ Free
    /\ LET r == remove_ord(maps[m], k) IN
           /\ maps' = [maps EXCEPT ![m] = r.map]
           /\ last' = Call("remove_ord", m, k, 0, At(find_ord(maps[m], k)), r.ret, "none")
    /\ Built(m, -1)
    /\ UNCHANGED it

NextOrd ==
    \/ New(1)
    \/ \E c \in 0..MaxCapArg : WithCapacity(1, c)
    \/ Clear(1)
    \/ \E k \in OrdKeys, v \in Values : InsertOrd(1, k, v)
    \/ \E k \in OrdKeys : RemoveOrd(1, k)

SpecOrd == Init /\ [][NextOrd]_vars

\* =================================================================== claims
\* In the action formulas below a step with last'.op = "insert" is a call of
\* insert: maps is the state before the call, maps' the state after it, and
\* last' holds its arguments and what it returned.
Other(m) == CHOOSE o \in Maps : o # m

\* C1: in every reachable state of either map, after any sequence of new,
\* with_capacity, insert, remove, clear, append, get_mut, values_mut and
\* iter_mut, the key vector and the value vector have the same length.
C1_SameLength == \A m \in Maps : Len(maps[m].keys) = Len(maps[m].values)

\* C1 witness: an append that ran to its end left two entries in the receiver.
C1_Witness ==
    /\ last.op = "append" /\ last.fault = "none"
    /\ len(maps[last.m]) = 2
    /\ Len(maps[last.m].values) = 2

\* C2: in every reachable state no two distinct indices of a key vector hold
\* equal keys, so the index find returns for a key is the only index that
\* matches it.
C2_NoEqualKeys ==
    \A m \in Maps :
        /\ \A i, j \in 1..Len(maps[m].keys) :
              i # j => ~KeyEq(maps[m].keys[i], maps[m].keys[j])
        /\ \A k \in Keys : \A i \in 1..Len(maps[m].keys) :
              KeyEq(k, maps[m].keys[i]) => find(maps[m], k) = Some(i)

\* C2 witness: insert met an equal key that is not identical to the one passed
\* in, in a map of two entries, and stored no second copy.
C2_Witness ==
    /\ last.op = "insert" /\ last.at > 0
    /\ len(maps[last.m]) = 2
    /\ maps[last.m].keys[last.at] # last.key

\* C3 as stated: insert(k, v) of a key that is not present returns None,
\* appends (k, v) as the final entry of both vectors, len grows by one, and
\* get(k) then returns Some(v) and contains_key(k) is true.
C3_Original ==
    [][(last'.op = "insert" /\ ~contains_key(maps[last'.m], last'.key)) =>
        LET pre == maps[last'.m]
            post == maps'[last'.m]
        IN  /\ last'.ret = None
            /\ post.keys = Append(pre.keys, last'.key)
            /\ post.values = Append(pre.values, last'.value)
            /\ len(post) = len(pre) + 1
            /\ get(post, last'.key) = Some(last'.value)
            /\ contains_key(post, last'.key)]_vars

\* C3 amended: insert(k, v) of a key that is not present returns None, appends
\* (k, v) as the final entry of both vectors and len grows by one; when k is
\* equal to itself (k == k), get(k) then returns Some(v) and contains_key(k) is
\* true.
C3_InsertAbsent ==
    [][(last'.op = "insert" /\ ~contains_key(maps[last'.m], last'.key)) =>
        LET pre == maps[last'.m]
            post == maps'[last'.m]
        IN  /\ last'.ret = None
            /\ post.keys = Append(pre.keys, last'.key)
            /\ post.values = Append(pre.values, last'.value)
            /\ len(post) = len(pre) + 1
            /\ KeyEq(last'.key, last'.key) =>
                  /\ get(post, last'.key) = Some(last'.value)
                  /\ contains_key(post, last'.key)]_vars

\* C3 witness: a key equal to itself was inserted as the third entry.
C3_Witness ==
    /\ last.op = "insert" /\ last.at = 0 /\ last.ret = None
    /\ KeyEq(last.key, last.key)
    /\ len(maps[last.m]) = 3
    /\ maps[last.m].keys[3] = last.key

\* C4: insert(k, v) of a key present at index i returns Some(the value that
\* was at i), sets values[i] to v, leaves keys[i] as it was (the key passed in
\* is not stored), leaves len and every other entry unchanged, and get(k) then
\* returns Some(v).
C4_InsertPresent ==
    [][(last'.op = "insert" /\ contains_key(maps[last'.m], last'.key)) =>
        LET pre == maps[last'.m]
            post == maps'[last'.m]
            i == find(pre, last'.key)[1]
        IN  /\ last'.ret = Some(pre.values[i])
            /\ post.values[i] = last'.value
            /\ post.keys = pre.keys
            /\ len(post) = len(pre)
            /\ Len(post.values) = Len(pre.values)
            /\ \A j \in 1..Len(pre.values) : j # i => post.values[j] = pre.values[j]
            /\ get(post, last'.key) = Some(last'.value)]_vars

\* C4 witness: the key passed in was equal to the stored one and not identical
\* to it, in a map with other entries, and the value changed.
C4_Witness ==
    /\ last.op = "insert" /\ last.at > 0
    /\ len(maps[last.m]) = 3
    /\ maps[last.m].keys[last.at] # last.key
    /\ last.ret # Some(last.value)

\* C5: remove(k) of a key present with value v returns Some(v), the value
\* paired with k; afterwards get(k) is None, contains_key(k) is false and len
\* is one less.
C5_RemovePresent ==
    [][(last'.op = "remove" /\ contains_key(maps[last'.m], last'.key)) =>
        LET pre == maps[last'.m]
            post == maps'[last'.m]
        IN  /\ last'.ret = get(pre, last'.key)
            /\ last'.ret # None
            /\ get(post, last'.key) = None
            /\ ~contains_key(post, last'.key)
            /\ len(post) = len(pre) - 1]_vars

\* C5 witness: a key was removed from a map of three entries whose values are
\* not all the same.
C5_Witness ==
    /\ last.op = "remove" /\ last.at > 0
    /\ len(maps[last.m]) = 2
    /\ \E i \in 1..2 : maps[last.m].values[i] # last.ret[1]

\* C6: remove(k) of a key that is not present returns None and leaves the key
\* vector, the value vector, their order and len as they were.
C6_RemoveAbsent ==
    [][(last'.op = "remove" /\ ~contains_key(maps[last'.m], last'.key)) =>
        /\ last'.ret = None
        /\ maps'[last'.m].keys = maps[last'.m].keys
        /\ maps'[last'.m].values = maps[last'.m].values
        /\ len(maps'[last'.m]) = len(maps[last'.m])]_vars

\* C6 witness: a key that is not present was removed from a map of three
\* entries.
C6_Witness ==
    /\ last.op = "remove" /\ last.at = 0 /\ last.ret = None
    /\ len(maps[last.m]) = 3

\* C7: after self.append(other), other is empty; every key that was in other
\* maps in self to the value other held for it; every key that was only in
\* self keeps its value; self holds no other keys and as many entries as the
\* two maps had distinct keys.
C7_Append ==
    [][last'.op = "append" =>
        LET m == last'.m
            self == maps[m]
            other == maps[Other(m)]
            post == maps'[m]
        IN  /\ is_empty(maps'[Other(m)])
            /\ \A k \in Keys : contains_key(other, k) => get(post, k) = get(other, k)
            /\ \A k \in Keys : (contains_key(self, k) /\ ~contains_key(other, k)) =>
                  get(post, k) = get(self, k)
            /\ \A k \in Keys : contains_key(post, k) =>
                  (contains_key(self, k) \/ contains_key(other, k))
            /\ len(post) = len(self) + Cardinality({i \in 1..len(other) :
                                            ~contains_key(self, other.keys[i])})]_vars

\* C8: remove(k) that finds k at index i of n entries swap-removes index i
\* from both vectors: if i is not the last index, position i then holds the
\* key and the value that were last; every other position before the last is
\* unchanged; the length is n - 1.
C8_SwapRemove ==
    [][(last'.op = "remove" /\ contains_key(maps[last'.m], last'.key)) =>
        LET pre == maps[last'.m]
            post == maps'[last'.m]
            i == find(pre, last'.key)[1]
            n == len(pre)
        IN  /\ Len(post.keys) = n - 1
            /\ Len(post.values) = n - 1
            /\ i < n => (post.keys[i] = pre.keys[n] /\ post.values[i] = pre.values[n])
            /\ \A j \in 1..(n - 1) : j # i =>
                  (post.keys[j] = pre.keys[j] /\ post.values[j] = pre.values[j])]_vars

\* C8 witness: the first of three entries was removed, and the two that stay
\* differ in key and in value.
C8_Witness ==
    /\ last.op = "remove" /\ last.at = 1
    /\ len(maps[last.m]) = 2
    /\ maps[last.m].keys[1] # maps[last.m].keys[2]
    /\ maps[last.m].values[1] # maps[last.m].values[2]

\* C9: iter(), iter_mut() and into_iter() on a map of n entries yield exactly n
\* pairs and then None; the i-th pair is (keys[i], values[i]) in index order
\* (for iter_mut: values[i] as it is when the pair is yielded, before the caller
\* writes through the reference).
C9_Iteration ==
    it.kind \in {"iter", "iter_mut", "into_iter"} =>
        /\ Len(it.out) <= Len(it.keys)
        /\ \A i \in 1..Len(it.out) : it.out[i][1] = it.keys[i]
        /\ it.kind # "iter_mut" =>
              \A i \in 1..Len(it.out) : it.out[i][2] = it.values[i]
        /\ it.kind # "into_iter" =>
              (it.keys = maps[it.m].keys /\ it.values = maps[it.m].values)
        /\ last.op = "next" =>
              /\ last.fault = "none"
              /\ last.ret # None =>
                    /\ last.ret = Some(it.out[Len(it.out)])
                    /\ last.ret = Some(<<it.keys[Len(it.out)], it.values[Len(it.out)]>>)
              /\ last.ret = None => Len(it.out) = Len(it.keys)
        /\ it.done => Len(it.out) = Len(it.keys)

\* C9 witness: an iterator over three entries, not all with the same value,
\* has yielded all three and then None.
C9_Witness ==
    /\ it.kind \in {"iter", "iter_mut", "into_iter"}
    /\ it.done /\ last.op = "next" /\ last.ret = None
    /\ Len(it.out) = 3
    /\ it.out[1][2] # it.out[3][2]

\* C10: clear() leaves both vectors empty (len() == 0, is_empty()) and the
\* capacity as it was; a further clear() changes nothing.
C10_Clear ==
    [][last'.op = "clear" =>
        LET pre == maps[last'.m]
            post == maps'[last'.m]
        IN  /\ post.keys = <<>>
            /\ post.values = <<>>
            /\ len(post) = 0
            /\ is_empty(post)
            /\ capacity(post) = capacity(pre)
            /\ clear(post) = post]_vars

\* C10 witness: a map that had allocated was cleared.
C10_Witness ==
    /\ last.op = "clear"
    /\ capacity(maps[last.m]) > 0
    /\ is_empty(maps[last.m])

C12_InsertOrdPresent ==
    [][(last'.op = "insert_ord" /\ find_ord(maps[last'.m], last'.key) # None) =>
        LET pre  == maps[last'.m]
            post == maps'[last'.m]
            i    == find_ord(pre, last'.key)[1]
        IN  /\ post.keys[i] = last'.key
            /\ post.values[i] = last'.value
            /\ last'.ret = Some(pre.values[i])
            /\ len(post) = len(pre)
            /\ \A j \in 1..len(pre) :
                  j # i => (post.keys[j] = pre.keys[j] /\ post.values[j] = pre.values[j])]_vars

\* C12 witness: an insert in the order-based variant found its key in a map of
\* two entries, returned the old value, and the map now holds the key passed
\* in, one that equal keys can be told apart from.
C12_Witness ==
    /\ last.op = "insert_ord" /\ last.ret # None /\ last.at > 0
    /\ len(maps[last.m]) = 2
    /\ last.key = <<1, 2>>
    /\ maps[last.m].keys[last.at] = last.key

\* C13: no operation faults in any reachable state: the last call returned
\* (no panic, no abort); every index find returns on the keys is an index of the
\* values; and the two cursors of an iterator stand at the same position over
\* sequences of the same length, so next() never unwraps an exhausted value
\* cursor and both run out at the same step.
C13_NoFault ==
    /\ last.fault = "none"
    /\ \A m \in Maps : \A k \in Keys :
          find(maps[m], k) # None => find(maps[m], k)[1] \in 1..Len(maps[m].values)
    /\ it.kind # "none" =>
          /\ Len(it.keys) = Len(it.values)
          /\ it.kpos = it.vpos
          /\ it.done => (it.kpos > Len(it.keys) /\ it.vpos > Len(it.values))

\* ------------------------------------------------------- the reference map
\* The abstract map a LinearMap stands for: its graph, the set of pairs
\* <<keys[i], values[i]>>, and the map operations on a graph.  A graph holds at
\* most one pair per class of equal keys.
Abs(mp) == {<<mp.keys[i], mp.values[i]>> : i \in 1..len(mp)}

SelfEq(k) == KeyEq(k, k)

RefHits(G, k) == {p \in G : KeyEq(p[1], k)}

RefGet(G, k) == IF RefHits(G, k) # {} THEN Some((CHOOSE p \in RefHits(G, k) : TRUE)[2]) ELSE None

RefInsert(G, k, v) ==
    IF RefHits(G, k) # {}
    THEN LET p == CHOOSE q \in RefHits(G, k) : TRUE
         IN  [map |-> (G \ {p}) \cup {<<p[1], v>>}, ret |-> Some(p[2])]
    ELSE [map |-> G \cup {<<k, v>>}, ret |-> None]

RefRemove(G, k) ==
    IF RefHits(G, k) # {}
    THEN LET p == CHOOSE q \in RefHits(G, k) : TRUE
         IN  [map |-> G \ {p}, ret |-> Some(p[2])]
    ELSE [map |-> G, ret |-> None]

RefAppend(G, H) ==
    [self |-> {p \in G : RefHits(H, p[1]) = {}}
                \cup {<<p[1], q[2]>> : <<p, q>> \in {pq \in G \X H : KeyEq(pq[1][1], pq[2][1])}}
                \cup {q \in H : RefHits(G, q[1]) = {}},
     other |-> {}]

\* C14: the two vectors refine a finite map from keys to values.  With every
\* key in play equal to itself, each insert, remove, clear and append takes the
\* graph of the map to the graph the same operation gives on the reference map
\* and returns what the reference returns; and after the step, in both maps,
\* len is the size of the graph and get and contains_key answer as the
\* reference lookup does for every key.
C14_Refinement ==
    [][(/\ last'.op \in {"insert", "remove", "clear", "append"}
        /\ \A m \in Maps : \A i \in 1..len(maps[m]) : SelfEq(maps[m].keys[i])
        /\ last'.op \in {"insert", "remove"} => SelfEq(last'.key)) =>
        LET m == last'.m
            G == Abs(maps[m])
            H == Abs(maps[Other(m)])
        IN  /\ last'.op = "insert" =>
                  /\ Abs(maps'[m]) = RefInsert(G, last'.key, last'.value).map
                  /\ last'.ret = RefInsert(G, last'.key, last'.value).ret
            /\ last'.op = "remove" =>
                  /\ Abs(maps'[m]) = RefRemove(G, last'.key).map
                  /\ last'.ret = RefRemove(G, last'.key).ret
            /\ last'.op = "clear" => Abs(maps'[m]) = {}
            /\ last'.op = "append" =>
                  /\ Abs(maps'[m]) = RefAppend(G, H).self
                  /\ Abs(maps'[Other(m)]) = RefAppend(G, H).other
            /\ last'.op # "append" => Abs(maps'[Other(m)]) = H
            /\ \A x \in Maps :
                  /\ len(maps'[x]) = Cardinality(Abs(maps'[x]))
                  /\ \A k \in Keys : SelfEq(k) =>
                        /\ get(maps'[x], k) = RefGet(Abs(maps'[x]), k)
                        /\ contains_key(maps'[x], k) = (RefGet(Abs(maps'[x]), k) # None)]_vars

====
